---- MODULE Spec2Model ----
(***************************************************************************)
(* A state-machine model of Kernels/common.c: the VPW message core of the  *)
(* kernel (ReadMessage, WriteMessage, ClearMessageBuffer,                  *)
(* CopyToMessageBuffer).  One sequential control flow; the DLC (the line   *)
(* controller) is the environment: every read of DLC_Status yields an      *)
(* arbitrary status byte, every read of DLC_Receive_FIFO yields the byte   *)
(* at the head of the receive FIFO.                                        *)
(***************************************************************************)
EXTENDS Integers, Sequences, FiniteSets, TLC

(***************************************************************************)
(* Program constants (values as in the source).                            *)
(***************************************************************************)
MessageBufferSize == 1024

\* Mutant of DebugLengthLimit: the cap is the capacity of the buffer.
NoDebugLengthLimit == MessageBufferSize

\* Artificial message-length limit of ReadMessage.
DebugLengthLimit == 25

\* Values ReadMessage stores through readState.
ReadStateSuccess == 1

ReadStateSuppressed == 2

ReadStateTimeout == 10

ReadStateOverflow == 11

ReadStateDebugLimit == 238

\* Segment enum.
Invalid == 0

Start == 1

Middle == 2

End == 4

Complete == 5

\* ReadType enum.
Silence == 0

MessageData == 1

CompletionCode == 2

Overflow == 3

\* DLC command bytes.
CmdFrameStart == 20

CmdFrameEnd == 12

CmdChecksum == 3

CmdAckCompletion == 2

(***************************************************************************)
(* Bounds of the model.  The loop budgets stand for the source's           *)
(* 30 * 1000 (ReadMessage poll loop) and 250 (WriteMessage back-off and    *)
(* flush loops); the poll budget is kept above DebugLengthLimit so that    *)
(* both the length cap and the timeout are reachable.                      *)
(***************************************************************************)
ReadPollLimit == 26

BackoffLimit == 1

FlushLimit == 1

\* Largest length argument the modelled caller passes to WriteMessage.
MaxWriteLength == 2

\* Largest number of WriteMessage calls the modelled caller spends on a frame.
MaxFrameCalls == 3

\* Largest length and offset arguments of CopyToMessageBuffer, and the
\* number of its calls in a behaviour.
MaxCopyLength == 3

MaxCopyOffset == 3

MaxCopies == 1

\* Outer iterations of LongSleepWithWatchdog; stands for the source's 10 * 1000.
SleepLimit == 2

\* Iterations of the poll loop of TryReadNextByte; stands for the source's 1000.
TryPollLimit == 3

(***************************************************************************)
(* C integer operators on bytes.                                           *)
(***************************************************************************)
RECURSIVE BitAnd(_, _)
BitAnd(a, b) ==
    IF a = 0 \/ b = 0 THEN 0
    ELSE (a % 2) * (b % 2) + 2 * BitAnd(a \div 2, b \div 2)

RECURSIVE BitOr(_, _)
BitOr(a, b) ==
    IF a = 0 THEN b
    ELSE IF b = 0 THEN a
    ELSE (IF a % 2 = 1 \/ b % 2 = 1 THEN 1 ELSE 0) + 2 * BitOr(a \div 2, b \div 2)

\* A C comparison yields the int 1 or 0.
CBool(p) == IF p THEN 1 ELSE 0

VARIABLES
    pc,             \* control position
    op,             \* the function being executed / that returned last
    MessageBuffer,  \* unsigned char MessageBuffer[MessageBufferSize]
    Watchdog1,      \* *Watchdog1
    Watchdog2,      \* *Watchdog2
    status,         \* local 'status' of ReadMessage / WriteMessage
    length,         \* local or parameter 'length'
    iterations,     \* ReadMessage: loop counter
    completionCode, \* caller's *completionCode
    readState,      \* caller's *readState
    retval,         \* value returned by the last call
    rxStream,       \* which byte stream the bus delivers as data
    rxData,         \* history: data bytes read from DLC_Receive_FIFO in this call
    rxReads,        \* history: reads of DLC_Receive_FIFO in the current poll step
    rxAcks,         \* history: acknowledge commands written in the current poll step
    drainStatus,    \* history: receive status last read by the overflow drain loop
    start,          \* 'start': the memory the pointer points into, and where
    offset,         \* CopyToMessageBuffer: 'offset'
    segment,        \* WriteMessage: 'segment'
    index,          \* WriteMessage: loop index
    lastIndex,      \* WriteMessage: 'lastIndex'
    loopCount,      \* WriteMessage: 'loopCount'
    txLog,          \* history: writes to DLC_Transmit_Command / DLC_Transmit_FIFO
    sent,           \* history: bytes handed to WriteMessage since the frame start
    frameCalls,     \* history: WriteMessage calls of the current frame (from its Start)
    stalled,        \* history: a back-off of this call ran out with the buffer full
    bufAtCall,      \* history: MessageBuffer when the current call was made
    copies,         \* history: number of CopyToMessageBuffer calls made
    scratched,      \* history: the last step called ScratchWatchdog
    sinceScratch,   \* history: buffer bytes zeroed since the last ScratchWatchdog
    caller,         \* the call site the running function returns to
    value,          \* Reboot: 'value', as its two 16-bit halves
    b1, b2, b3, b4, \* SendToolPresent: its parameters
    data,           \* TryReadNextByte: caller's *data
    type,           \* TryReadNextByte: caller's *type
    outerLoop,      \* LongSleepWithWatchdog: 'outerLoop'
    checksum        \* StartChecksum / AddReadPayloadChecksum: 'checksum'

vars == <<pc, op, MessageBuffer, Watchdog1, Watchdog2, status, length, iterations,
          completionCode, readState, retval, rxStream, rxData, rxReads, rxAcks,
          drainStatus, start, offset, segment, index, lastIndex, loopCount, txLog,
          sent, frameCalls, stalled, bufAtCall, copies, scratched, sinceScratch,
          caller, value, b1, b2, b3, b4, data, type, outerLoop, checksum>>

\* The variables of Reboot, SendToolPresent, TryReadNextByte,
\* LongSleepWithWatchdog and the checksum functions.
laterVars == <<caller, value, b1, b2, b3, b4, data, type, outerLoop, checksum>>

writeVars == <<start, offset, segment, index, lastIndex, loopCount, txLog, sent,
               frameCalls, stalled>>

(***************************************************************************)
(* The environment.                                                        *)
(***************************************************************************)
\* Bytes DLC_Status may read as: one byte for every receive-status field
\* (bits 7..5), with the low five bits varying so that every transmit-fullness
\* field (bits 1..0) occurs: 0x00 0x2B 0x56 0x61 0x8C 0xB7 0xC2 0xED.
StatusValues == { rx * 32 + ((rx * 11) % 32) : rx \in 0..7 }

\* The status bytes read while transmitting: the four of them whose receive
\* field is 4..7 (0x8C 0xB7 0xC2 0xED, transmit-fullness 0 3 2 1).
TransmitStatusValues == { sv \in StatusValues : sv >= 128 }

\* Completion codes the DLC may deliver.
CompletionCodes == { 0, 16, 48, 255 }

\* The data streams the bus may deliver: k-th data byte of stream s.
RxStreams == { "up", "down" }

RxDataByte(s, k) ==
    CASE s = "up"    -> (48 + k) % 256
      [] s = "down"  -> (255 - k) % 256

\* Initial contents of MessageBuffer (.kerneldata is not initialised).
InitBuffers == { [i \in 0..(MessageBufferSize - 1) |-> 165] }

\* Messages the caller stages at the start of MessageBuffer: the headers of
\* the reboot and the tool-present message.
StagedMessages == { <<108, 240, 16, 96>>, <<140, 254, 240, 63>> }

\* Offsets into MessageBuffer at which the caller's frames start.
FrameOffsets == { 0, 1 }

\* Bytes a read outside the object 'start' points into may yield.
OutsideBytes == { 0, 255 }

(***************************************************************************)
(* ScratchWatchdog (both registers after the call).                        *)
(***************************************************************************)
ScratchWatchdog1(w) == 170

ScratchWatchdog2(w) == BitOr(BitAnd(w, 127), 128)

ScratchWatchdog ==
    /\ Watchdog1' = ScratchWatchdog1(Watchdog1)
    /\ Watchdog2' = ScratchWatchdog2(Watchdog2)
    /\ scratched' = TRUE
    /\ sinceScratch' = 0

\* A step in which ScratchWatchdog is not called.
NoScratch ==
    /\ scratched' = FALSE
    /\ UNCHANGED <<Watchdog1, Watchdog2>>

Init ==
    /\ pc = "idle"
    /\ op = "none"
    /\ MessageBuffer \in InitBuffers
    /\ Watchdog1 = 0
    /\ Watchdog2 = 0
    /\ status = 0
    /\ length = 0
    /\ iterations = 0
    /\ completionCode = 0
    /\ readState = 0
    /\ retval = 0
    /\ rxStream = "up"
    /\ rxData = <<>>
    /\ rxReads = 0
    /\ rxAcks = 0
    /\ drainStatus = 0
    /\ start = [kind |-> "buf", off |-> 0, ext |-> <<>>]
    /\ offset = 0
    /\ segment = Invalid
    /\ index = 0
    /\ lastIndex = 0
    /\ loopCount = 0
    /\ txLog = <<>>
    /\ sent = <<>>
    /\ frameCalls = 0
    /\ stalled = FALSE
    /\ bufAtCall = MessageBuffer
    /\ copies = 0
    /\ scratched = FALSE
    /\ sinceScratch = 0
    /\ caller = "main"
    /\ value = [hi |-> 0, lo |-> 0]
    /\ b1 = 0 /\ b2 = 0 /\ b3 = 0 /\ b4 = 0
    /\ data = 0
    /\ type = Silence
    /\ outerLoop = 0
    /\ checksum = 0

AtCaller == pc \in {"idle", "returned"}

(***************************************************************************)
(* ReadMessage                                                             *)
(***************************************************************************)
\* status = (*DLC_Status & 0xE0) >> 5
ReceiveStatus(sv) == BitAnd(sv, 224) \div 32

\* The condition of the overflow drain loop, as the compiler parses it:
\* *DLC_Status & 0xE0 == 0x60  is  *DLC_Status & (0xE0 == 0x60).
DrainCondition(sv) == BitAnd(sv, CBool(224 = 96)) # 0

\* Mutant of IsSuppressed: either bit set, (*completionCode & 0x30) != 0.
IsSuppressedAnyBit(code) == BitAnd(code, 48) # 0

\* (*completionCode & 0x30) == 0x30
IsSuppressed(code) == BitAnd(code, 48) = 48

\* The caller invokes ReadMessage(&completionCode, &readState).
ReadMessageCall ==
    /\ pc = "idle"
    /\ ScratchWatchdog
    /\ op' = "ReadMessage"
    /\ pc' = "rm_loop"
    /\ length' = 0
    /\ iterations' = 0
    /\ \E s \in RxStreams : rxStream' = s
    /\ rxData' = <<>>
    /\ rxReads' = 0
    /\ rxAcks' = 0
    /\ drainStatus' = 0
    /\ bufAtCall' = MessageBuffer
    /\ UNCHANGED copies
    /\ UNCHANGED <<MessageBuffer, status, completionCode, readState, retval>>
    /\ UNCHANGED writeVars
    /\ UNCHANGED laterVars

\* return 'result' with *readState = 'state'
ReadReturn(state, result) ==
    /\ readState' = state
    /\ retval' = result
    /\ pc' = "returned"

\* Mutant of ReadPollIdle: 'continue' in place of 'break', which skips the
\* ScratchWatchdog at the end of the loop body.
ReadPollIdleContinue(sv) ==
    /\ NoScratch
    /\ iterations' = iterations + 1
    /\ rxReads' = 0
    /\ rxAcks' = 0
    /\ UNCHANGED <<pc, MessageBuffer, length, completionCode, readState,
                   retval, rxData, drainStatus, sinceScratch>>

\* case 0: no data to process.
ReadPollIdle(sv) ==
    /\ ScratchWatchdog
    /\ iterations' = iterations + 1
    /\ rxReads' = 0
    /\ rxAcks' = 0
    /\ UNCHANGED <<pc, MessageBuffer, length, completionCode, readState,
                   retval, rxData, drainStatus>>

\* case 1, 2, 4: the receive FIFO holds a data byte.
ReadPollData(sv) ==
    LET b == RxDataByte(rxStream, Len(rxData)) IN
    /\ MessageBuffer' = [MessageBuffer EXCEPT ![length] = b]
    /\ length' = length + 1
    /\ rxData' = Append(rxData, b)
    /\ rxReads' = 1
    /\ rxAcks' = 0
    /\ ScratchWatchdog
    /\ iterations' = iterations + 1
    /\ UNCHANGED <<pc, completionCode, readState, retval, drainStatus>>

\* Mutant of ReadPollCompletion: without the 'if (length == 0) break;'.
ReadPollCompletionNoLengthCheck(sv) ==
    \E code \in CompletionCodes :
        /\ completionCode' = code
        /\ rxReads' = 1
        /\ rxAcks' = 1
        /\ IF IsSuppressed(code)
           THEN ReadReturn(ReadStateSuppressed, 0)
           ELSE ReadReturn(ReadStateSuccess, length)
        /\ NoScratch
        /\ UNCHANGED <<iterations, sinceScratch, MessageBuffer, length,
                       rxData, drainStatus>>

\* case 5, 6, 7: the receive FIFO holds a completion code.
ReadPollCompletion(sv) ==
    \E code \in CompletionCodes :
        /\ completionCode' = code
        /\ rxReads' = 1
        /\ rxAcks' = 1
        /\ IF length = 0
           THEN /\ ScratchWatchdog
                /\ iterations' = iterations + 1
                /\ UNCHANGED <<pc, readState, retval>>
           ELSE /\ IF IsSuppressed(code)
                   THEN ReadReturn(ReadStateSuppressed, 0)
                   ELSE ReadReturn(ReadStateSuccess, length)
                /\ NoScratch
                /\ UNCHANGED <<iterations, sinceScratch>>
        /\ UNCHANGED <<MessageBuffer, length, rxData, drainStatus>>

\* case 3: buffer overflow; control reaches the drain loop.
ReadPollOverflow(sv) ==
    /\ pc' = "rm_drain"
    /\ rxReads' = 0
    /\ rxAcks' = 0
    /\ NoScratch
    /\ UNCHANGED <<MessageBuffer, length, iterations, completionCode, readState,
                   retval, rxData, drainStatus, sinceScratch>>

\* Mutant of ReadPollStep: status 4 is taken for 'no data'.
ReadPollStepFourIsIdle(sv) ==
    LET st == ReceiveStatus(sv) IN
    /\ status' = st
    /\ CASE st \in {0, 4} -> ReadPollIdle(sv)
         [] st \in {1, 2} -> ReadPollData(sv)
         [] st \in {5, 6, 7} -> ReadPollCompletion(sv)
         [] st = 3 -> ReadPollOverflow(sv)

\* One iteration of the poll loop entered with length # 25 and status read
\* as sv: the switch.
ReadPollStep(sv) ==
    LET st == ReceiveStatus(sv) IN
    /\ status' = st
    /\ CASE st = 0 -> ReadPollIdle(sv)
         [] st \in {1, 2, 4} -> ReadPollData(sv)
         [] st \in {5, 6, 7} -> ReadPollCompletion(sv)
         [] st = 3 -> ReadPollOverflow(sv)

\* One pass of the for loop of ReadMessage.
ReadMessagePoll ==
    /\ pc = "rm_loop"
    /\ iterations < ReadPollLimit
    /\ IF length = DebugLengthLimit
       THEN /\ ReadReturn(ReadStateDebugLimit, length)
            /\ NoScratch
            /\ UNCHANGED <<MessageBuffer, sinceScratch, status, length,
                           iterations, completionCode, rxData, rxReads,
                           rxAcks, drainStatus>>
       ELSE \E sv \in StatusValues : ReadPollStep(sv)
    /\ UNCHANGED <<op, rxStream, bufAtCall, copies>>
    /\ UNCHANGED writeVars
    /\ UNCHANGED laterVars

\* Mutant of ReadMessageDrain: the overflow return hands back 'length'.
ReadMessageDrainReturnsLength ==
    /\ pc = "rm_drain"
    /\ \E dv \in StatusValues :
         /\ drainStatus' = ReceiveStatus(dv)
         /\ IF DrainCondition(dv)
            THEN /\ rxReads' = rxReads + 1
                 /\ UNCHANGED <<pc, readState, retval>>
            ELSE /\ ReadReturn(ReadStateOverflow, length)
                 /\ UNCHANGED rxReads
    /\ NoScratch
    /\ UNCHANGED <<op, MessageBuffer, sinceScratch, status, length,
                   iterations, completionCode, rxStream, rxData, rxAcks,
                   bufAtCall, copies>>
    /\ UNCHANGED writeVars
    /\ UNCHANGED laterVars

\* The drain loop: its test reads DLC_Status; while it holds, a byte is read
\* from DLC_Receive_FIFO and discarded; when it fails, the call returns.
ReadMessageDrain ==
    /\ pc = "rm_drain"
    /\ \E dv \in StatusValues :
         /\ drainStatus' = ReceiveStatus(dv)
         /\ IF DrainCondition(dv)
            THEN /\ rxReads' = rxReads + 1
                 /\ UNCHANGED <<pc, readState, retval>>
            ELSE /\ ReadReturn(ReadStateOverflow, 0)
                 /\ UNCHANGED rxReads
    /\ NoScratch
    /\ UNCHANGED <<op, MessageBuffer, sinceScratch, status, length,
                   iterations, completionCode, rxStream, rxData, rxAcks,
                   bufAtCall, copies>>
    /\ UNCHANGED writeVars
    /\ UNCHANGED laterVars

\* Mutant of ReadMessageTimeout: the partial message is dropped (return 0).
ReadMessageTimeoutReturnsZero ==
    /\ pc = "rm_loop"
    /\ iterations >= ReadPollLimit
    /\ ReadReturn(ReadStateTimeout, 0)
    /\ NoScratch
    /\ UNCHANGED <<op, MessageBuffer, sinceScratch, status, length,
                   iterations, completionCode, rxStream, rxData, rxReads,
                   rxAcks, drainStatus, bufAtCall, copies>>
    /\ UNCHANGED writeVars
    /\ UNCHANGED laterVars

\* The loop ran out of iterations.
ReadMessageTimeout ==
    /\ pc = "rm_loop"
    /\ iterations >= ReadPollLimit
    /\ ReadReturn(ReadStateTimeout, length)
    /\ NoScratch
    /\ UNCHANGED <<op, MessageBuffer, sinceScratch, status, length,
                   iterations, completionCode, rxStream, rxData, rxReads,
                   rxAcks, drainStatus, bufAtCall, copies>>
    /\ UNCHANGED writeVars
    /\ UNCHANGED laterVars

\* ReadMessage has returned to the caller.
ReadReturned == pc = "returned" /\ op = "ReadMessage"

\* MessageBuffer[0..n-1] holds the data bytes the FIFO delivered, in order.
BufferHoldsReceived ==
    \A i \in 1..Len(rxData) : MessageBuffer[i - 1] = rxData[i]

NextRead ==
    \/ ReadMessageCall
    \/ ReadMessagePoll
    \/ ReadMessageDrain
    \/ ReadMessageTimeout

SpecRead == Init /\ [][NextRead]_vars

(***************************************************************************)
(* ClearMessageBuffer                                                      *)
(***************************************************************************)
\* Mutant of ClearMessageBuffer: the loop stops one byte short.
ClearMessageBufferShort(buf) ==
    [i \in DOMAIN buf |-> IF i < MessageBufferSize - 1 THEN 0 ELSE buf[i]]

\* The buffer after the loop: every index below MessageBufferSize is zeroed.
ClearMessageBuffer(buf) ==
    [i \in DOMAIN buf |-> IF i < MessageBufferSize THEN 0 ELSE buf[i]]

(***************************************************************************)
(* The caller                                                              *)
(***************************************************************************)
\* start[i], for 'start' pointing into MessageBuffer or into an array of the
\* caller; the set of values the read may yield.
Load(buf, st, i) ==
    IF st.kind = "buf"
    THEN IF st.off + i \in DOMAIN buf THEN {buf[st.off + i]} ELSE OutsideBytes
    ELSE IF st.off + i + 1 \in DOMAIN st.ext
         THEN {st.ext[st.off + i + 1]}
         ELSE OutsideBytes

\* The caller writes a message into MessageBuffer (between frames).  The
\* locals of the call that returned are gone, and the history of the frame
\* that ended is dropped.
StageMessage ==
    /\ AtCaller
    /\ ~(frameCalls > 0 /\ BitAnd(segment, End) = 0)
    /\ \E m \in StagedMessages :
         MessageBuffer' = [i \in DOMAIN MessageBuffer |->
                              IF i < Len(m) THEN m[i + 1] ELSE MessageBuffer[i]]
    /\ MessageBuffer' # MessageBuffer
    /\ pc' = "idle"
    /\ op' = "caller"
    /\ status' = 0
    /\ length' = 0
    /\ start' = [kind |-> "buf", off |-> 0, ext |-> <<>>]
    /\ offset' = 0
    /\ segment' = Invalid
    /\ index' = 0
    /\ lastIndex' = 0
    /\ loopCount' = 0
    /\ txLog' = <<>>
    /\ sent' = <<>>
    /\ frameCalls' = 0
    /\ stalled' = FALSE
    /\ bufAtCall' = MessageBuffer'
    /\ NoScratch
    /\ sinceScratch' = 0
    /\ UNCHANGED <<iterations, completionCode, readState,
                   retval, rxStream, rxData, rxReads, rxAcks, drainStatus, copies>>
    /\ UNCHANGED laterVars

(***************************************************************************)
(* WriteMessage                                                            *)
(***************************************************************************)
\* (segment & Start) != 0, (segment & End) != 0
HasStart(seg) == BitAnd(seg, Start) # 0

HasEnd(seg) == BitAnd(seg, End) # 0

\* Mutant of LastIndex: the last byte is always held back.
LastIndexAlwaysShort(seg, len) == len - 1

\* int lastIndex = (segment & End) ? length - 1 : length;
LastIndex(seg, len) == IF HasEnd(seg) THEN len - 1 ELSE len

\* status = *DLC_Status & 0x03
TransmitStatus(sv) == BitAnd(sv, 3)

\* Mutant of EndWrites: the last byte is written before the frame-end command.
EndWritesByteFirst(b) ==
    << <<"data", b>>, <<"cmd", CmdFrameEnd>>, <<"cmd", CmdChecksum>>, <<"data", 0>> >>

\* The port writes of the End part: 0x0C, the last byte, 0x03, 0x00.
EndWrites(b) ==
    << <<"cmd", CmdFrameEnd>>, <<"data", b>>, <<"cmd", CmdChecksum>>, <<"data", 0>> >>

\* The bytes start[0..len-1] of a range inside MessageBuffer.
RangeOf(buf, st, len) == [i \in 1..len |-> buf[st.off + i - 1]]

\* Segments and ranges the caller passes.  A call without Start continues
\* the frame the previous calls left open, with the chunk of MessageBuffer
\* that follows the previous call's.
Segments == { Start, Middle, End, Complete }

StartOffsets(seg) ==
    IF HasStart(seg) THEN FrameOffsets ELSE {start.off + length}

FrameOpen == frameCalls > 0 /\ ~HasEnd(segment)

\* The bytes start[0..len-1] a call is given.
RangeBytes(buf, st, len) ==
    IF st.kind = "buf"
    THEN RangeOf(buf, st, len)
    ELSE [i \in 1..len |-> st.ext[st.off + i]]

\* WriteMessage(st, len, seg) from its entry to the send loop:
\* ScratchWatchdog, the frame-start command, lastIndex.
WriteMessageEntry(st, len, seg) ==
    /\ segment' = seg
    /\ start' = st
    /\ length' = len
    /\ lastIndex' = LastIndex(seg, len)
    /\ txLog' = IF HasStart(seg) THEN << <<"cmd", CmdFrameStart>> >> ELSE txLog
    /\ sent' = (IF HasStart(seg) THEN <<>> ELSE sent)
                  \o RangeBytes(MessageBuffer, st, len)
    /\ frameCalls' = IF HasStart(seg) THEN 1 ELSE frameCalls + 1
    /\ ScratchWatchdog
    /\ op' = "WriteMessage"
    /\ pc' = "wm_send"
    /\ index' = 0
    /\ status' = 0
    /\ loopCount' = 0
    /\ stalled' = FALSE
    /\ bufAtCall' = MessageBuffer

\* The caller invokes WriteMessage(MessageBuffer + off, len, seg).
WriteMessageCall ==
    /\ AtCaller
    /\ caller = "main"
    /\ \E seg \in Segments, len \in 0..MaxWriteLength :
       \E off \in StartOffsets(seg) :
         /\ HasStart(seg) \/ (FrameOpen /\ frameCalls < MaxFrameCalls)
         /\ WriteMessageEntry([kind |-> "buf", off |-> off, ext |-> <<>>], len, seg)
    /\ UNCHANGED <<MessageBuffer, offset, iterations,
                   completionCode, readState, retval, rxStream, rxData, rxReads,
                   rxAcks, drainStatus, copies>>
    /\ UNCHANGED laterVars

writeFrame == <<op, MessageBuffer, length, iterations, completionCode, readState,
                retval, rxStream, rxData, rxReads, rxAcks, drainStatus, start,
                offset, segment, lastIndex, sent, frameCalls, bufAtCall, copies,
                caller, value, b1, b2, b3, b4, data, type, outerLoop, checksum>>

\* Send loop, one byte: write it, scratch, read the fullness field.
WriteMessageSend ==
    /\ pc = "wm_send"
    /\ index < lastIndex
    /\ \E b \in Load(MessageBuffer, start, index) :
         txLog' = Append(txLog, <<"data", b>>)
    /\ ScratchWatchdog
    /\ \E sv \in TransmitStatusValues : status' = TransmitStatus(sv)
    /\ loopCount' = 0
    /\ pc' = "wm_backoff"
    /\ UNCHANGED <<index, stalled>>
    /\ UNCHANGED writeFrame

\* Back-off loop: its test, and either one pass of its body or the exit to
\* the next byte.
WriteMessageBackoff ==
    /\ pc = "wm_backoff"
    /\ IF (status = 2 \/ status = 3) /\ loopCount < BackoffLimit
       THEN /\ loopCount' = loopCount + 1
            /\ ScratchWatchdog
            /\ \E sv \in TransmitStatusValues : status' = TransmitStatus(sv)
            /\ UNCHANGED <<pc, index, stalled>>
       ELSE /\ index' = index + 1
            /\ stalled' = (stalled \/ status = 2 \/ status = 3)
            /\ pc' = "wm_send"
            /\ NoScratch
            /\ UNCHANGED <<status, loopCount, sinceScratch>>
    /\ UNCHANGED txLog
    /\ UNCHANGED writeFrame

\* The End part up to the flush loop: frame end, last byte, checksum.
WriteMessageEnd ==
    /\ pc = "wm_send"
    /\ index >= lastIndex
    /\ HasEnd(segment)
    /\ \E b \in Load(MessageBuffer, start, length - 1) :
         txLog' = txLog \o EndWrites(b)
    /\ \E sv \in TransmitStatusValues : status' = TransmitStatus(sv)
    /\ loopCount' = 0
    /\ pc' = "wm_flush"
    /\ NoScratch
    /\ UNCHANGED <<index, stalled, sinceScratch>>
    /\ UNCHANGED writeFrame

\* Mutant of WriteMessageFlush: the buffer is cleared without waiting.
WriteMessageFlushNoWait ==
    /\ pc = "wm_flush"
    /\ MessageBuffer' = ClearMessageBuffer(MessageBuffer)
    /\ pc' = "returned"
    /\ NoScratch
    /\ sinceScratch' = sinceScratch + MessageBufferSize
    /\ UNCHANGED <<op, status, length, iterations,
                   completionCode, readState, retval, rxStream, rxData, rxReads,
                   rxAcks, drainStatus, bufAtCall, copies>>
    /\ UNCHANGED writeVars
    /\ UNCHANGED laterVars

\* Mutant of WriteMessageFlush: the wait has no budget, 'while (status != 0)'.
WriteMessageFlushUnbounded ==
    /\ pc = "wm_flush"
    /\ IF status # 0
       THEN /\ ScratchWatchdog
            /\ \E sv \in TransmitStatusValues : status' = TransmitStatus(sv)
            /\ UNCHANGED <<pc, MessageBuffer, loopCount>>
       ELSE /\ MessageBuffer' = ClearMessageBuffer(MessageBuffer)
            /\ pc' = "returned"
            /\ NoScratch
            /\ sinceScratch' = sinceScratch + MessageBufferSize
            /\ UNCHANGED <<status, loopCount>>
    /\ UNCHANGED <<op, length, iterations, completionCode, readState, retval,
                   rxStream, rxData, rxReads, rxAcks, drainStatus, start, offset,
                   segment, index, lastIndex, txLog, sent, frameCalls, stalled,
                   bufAtCall, copies>>
    /\ UNCHANGED laterVars

\* Flush loop: its test, and either one pass of its body or
\* ClearMessageBuffer and the return.
WriteMessageFlush ==
    /\ pc = "wm_flush"
    /\ IF status # 0 /\ loopCount < FlushLimit
       THEN /\ loopCount' = loopCount + 1
            /\ ScratchWatchdog
            /\ \E sv \in TransmitStatusValues : status' = TransmitStatus(sv)
            /\ UNCHANGED <<pc, MessageBuffer>>
       ELSE /\ MessageBuffer' = ClearMessageBuffer(MessageBuffer)
            /\ pc' = "returned"
            /\ NoScratch
            /\ sinceScratch' = sinceScratch + MessageBufferSize
            /\ UNCHANGED <<status, loopCount>>
    /\ UNCHANGED <<op, length, iterations, completionCode, readState, retval,
                   rxStream, rxData, rxReads, rxAcks, drainStatus, start, offset,
                   segment, index, lastIndex, txLog, sent, frameCalls, stalled,
                   bufAtCall, copies>>
    /\ UNCHANGED laterVars

\* A segment without End returns after the send loop.
WriteMessageReturn ==
    /\ pc = "wm_send"
    /\ index >= lastIndex
    /\ ~HasEnd(segment)
    /\ pc' = "returned"
    /\ NoScratch
    /\ UNCHANGED <<op, MessageBuffer, sinceScratch, status, length,
                   iterations, completionCode, readState, retval, rxStream,
                   rxData, rxReads, rxAcks, drainStatus, bufAtCall, copies>>
    /\ UNCHANGED writeVars
    /\ UNCHANGED laterVars

NextWrite ==
    \/ StageMessage
    \/ WriteMessageCall
    \/ WriteMessageSend
    \/ WriteMessageBackoff
    \/ WriteMessageEnd
    \/ WriteMessageFlush
    \/ WriteMessageReturn

SpecWrite == Init /\ [][NextWrite]_vars

(***************************************************************************)
(* CopyToMessageBuffer                                                     *)
(***************************************************************************)
\* Sources the caller copies from: the start of MessageBuffer, one byte into
\* it, and an array of its own.
CopySources ==
    { [kind |-> "buf", off |-> 0, ext |-> <<>>],
      [kind |-> "buf", off |-> 1, ext |-> <<>>],
      [kind |-> "ext", off |-> 0, ext |-> <<222, 173, 190>>] }

\* start[i] of a source that holds index i.
LoadByte(buf, st, i) ==
    IF st.kind = "buf" THEN buf[st.off + i] ELSE st.ext[st.off + i + 1]

\* The loop of the commented-out "obvious way", from 'idx' up.
RECURSIVE CopyForwardFrom(_, _, _, _, _)
CopyForwardFrom(buf, st, len, off, idx) ==
    IF idx >= len THEN buf
    ELSE CopyForwardFrom([buf EXCEPT ![off + idx] = LoadByte(buf, st, idx)],
                         st, len, off, idx + 1)

\* Mutant of CopyLoop: lowest index first.
CopyLoopForward(buf, st, len, off) == CopyForwardFrom(buf, st, len, off, 0)

\* The loop from 'idx' down to 0: MessageBuffer[index + offset] = start[index].
RECURSIVE CopyBackwardFrom(_, _, _, _)
CopyBackwardFrom(buf, st, off, idx) ==
    IF idx < 0 THEN buf
    ELSE CopyBackwardFrom([buf EXCEPT ![idx + off] = LoadByte(buf, st, idx)],
                          st, off, idx - 1)

\* MessageBuffer after the whole loop, index = length - 1 down to 0.
CopyLoop(buf, st, len, off) == CopyBackwardFrom(buf, st, off, len - 1)

\* The caller invokes CopyToMessageBuffer(start, length, offset) with a
\* source that holds 'length' bytes and a destination inside MessageBuffer.
CopyToMessageBuffer ==
    /\ AtCaller
    /\ copies < MaxCopies
    /\ \E st \in CopySources, len \in 0..MaxCopyLength, off \in 0..MaxCopyOffset :
         /\ off + len <= MessageBufferSize
         /\ st.kind = "ext" => len <= Len(st.ext)
         /\ start' = st
         /\ length' = len
         /\ offset' = off
         /\ MessageBuffer' = CopyLoop(MessageBuffer, st, len, off)
         \* index % 100 == 0 holds at index 0, which every non-empty copy reaches
         /\ IF len > 0 THEN ScratchWatchdog ELSE NoScratch /\ UNCHANGED sinceScratch
    /\ bufAtCall' = MessageBuffer
    /\ copies' = copies + 1
    /\ op' = "CopyToMessageBuffer"
    /\ pc' = "returned"
    /\ UNCHANGED <<status, iterations, completionCode, readState, retval,
                   rxStream, rxData, rxReads, rxAcks, drainStatus, segment, index,
                   lastIndex, loopCount, txLog, sent, frameCalls, stalled>>
    /\ UNCHANGED laterVars

NextCopy ==
    \/ StageMessage
    \/ CopyToMessageBuffer

SpecCopy == Init /\ [][NextCopy]_vars

(***************************************************************************)
(* TryReadNextByte.  The function stores the status field through          *)
(* '*status'; the file declares no 'status' outside ReadMessage and         *)
(* WriteMessage, and the variable 'status' stands for the cell written.    *)
(***************************************************************************)
\* What the caller's data, completionCode and type hold before the call.
StaleByte == 165

\* The variables TryReadNextByte does not touch.
tryFrame == <<op, MessageBuffer, length, readState, rxStream, start, offset,
              segment, index, lastIndex, loopCount, txLog, sent, frameCalls,
              stalled, bufAtCall, copies, caller, value, b1, b2, b3, b4,
              outerLoop, checksum>>

\* The caller invokes TryReadNextByte(&data, &completionCode, &type).
TryReadNextByteCall ==
    /\ AtCaller
    /\ caller = "main"
    /\ op' = "TryReadNextByte"
    /\ pc' = "tr_loop"
    /\ iterations' = 0
    /\ data' = StaleByte
    /\ completionCode' = StaleByte
    /\ type' = MessageData
    /\ \E s \in RxStreams : rxStream' = s
    /\ rxData' = <<>>
    /\ rxReads' = 0
    /\ rxAcks' = 0
    /\ drainStatus' = 0
    /\ bufAtCall' = MessageBuffer
    /\ NoScratch
    /\ UNCHANGED <<MessageBuffer, status, length, readState, retval, start, offset,
                   segment, index, lastIndex, loopCount, txLog, sent, frameCalls,
                   stalled, copies, caller, value, b1, b2, b3, b4, outerLoop,
                   checksum, sinceScratch>>

\* return 'result' with *type = 'kind'
TryReturn(kind, result) ==
    /\ type' = kind
    /\ retval' = result
    /\ pc' = "returned"

\* case 0: no data to process.
TryPollIdle(sv) ==
    /\ ScratchWatchdog
    /\ iterations' = iterations + 1
    /\ rxReads' = 0
    /\ rxAcks' = 0
    /\ UNCHANGED <<pc, data, completionCode, type, retval, rxData, drainStatus>>

\* case 1, 2, 4: *data = *DLC_Receive_FIFO.
TryPollData(sv) ==
    LET b == RxDataByte(rxStream, Len(rxData)) IN
    /\ data' = b
    /\ rxData' = Append(rxData, b)
    /\ rxReads' = 1
    /\ rxAcks' = 0
    /\ TryReturn(MessageData, 1)
    /\ NoScratch
    /\ UNCHANGED <<iterations, completionCode, drainStatus, sinceScratch>>

\* Mutant of TryPollCompletion: the completion code is not acknowledged.
TryPollCompletionNoAck(sv) ==
    \E code \in CompletionCodes :
        /\ completionCode' = code
        /\ rxReads' = 1
        /\ rxAcks' = 0
        /\ TryReturn(CompletionCode, 1)
        /\ NoScratch
        /\ UNCHANGED <<iterations, data, rxData, drainStatus, sinceScratch>>

\* case 5, 6, 7: *completionCode = *DLC_Receive_FIFO, acknowledge.
TryPollCompletion(sv) ==
    \E code \in CompletionCodes :
        /\ completionCode' = code
        /\ rxReads' = 1
        /\ rxAcks' = 1
        /\ TryReturn(CompletionCode, 1)
        /\ NoScratch
        /\ UNCHANGED <<iterations, data, rxData, drainStatus, sinceScratch>>

\* case 3: buffer overflow; control reaches the drain loop.
TryPollOverflow(sv) ==
    /\ pc' = "tr_drain"
    /\ rxReads' = 0
    /\ rxAcks' = 0
    /\ NoScratch
    /\ UNCHANGED <<iterations, data, completionCode, type, retval, rxData,
                   drainStatus, sinceScratch>>

\* One iteration of the poll loop with DLC_Status read as sv: the switch.
TryPollStep(sv) ==
    LET st == ReceiveStatus(sv) IN
    /\ status' = st
    /\ CASE st = 0 -> TryPollIdle(sv)
         [] st \in {1, 2, 4} -> TryPollData(sv)
         [] st \in {5, 6, 7} -> TryPollCompletion(sv)
         [] st = 3 -> TryPollOverflow(sv)

\* One pass of the for loop of TryReadNextByte.
TryReadNextBytePoll ==
    /\ pc = "tr_loop"
    /\ iterations < TryPollLimit
    /\ \E sv \in StatusValues : TryPollStep(sv)
    /\ UNCHANGED tryFrame

\* The drain loop and the Overflow return.
TryReadNextByteDrain ==
    /\ pc = "tr_drain"
    /\ \E dv \in StatusValues :
         /\ drainStatus' = ReceiveStatus(dv)
         /\ IF DrainCondition(dv)
            THEN /\ rxReads' = rxReads + 1
                 /\ UNCHANGED <<pc, data, completionCode, type, retval>>
            ELSE /\ data' = 0
                 /\ completionCode' = 0
                 /\ TryReturn(Overflow, 0)
                 /\ UNCHANGED rxReads
    /\ NoScratch
    /\ UNCHANGED <<status, iterations, rxData, rxAcks, sinceScratch>>
    /\ UNCHANGED tryFrame

\* The loop ran out of iterations: Silence.
TryReadNextByteTimeout ==
    /\ pc = "tr_loop"
    /\ iterations >= TryPollLimit
    /\ data' = 0
    /\ completionCode' = 0
    /\ TryReturn(Silence, 0)
    /\ NoScratch
    /\ UNCHANGED <<status, iterations, rxData, rxReads, rxAcks, drainStatus,
                   sinceScratch>>
    /\ UNCHANGED tryFrame

NextTryRead ==
    \/ (pc = "idle" /\ TryReadNextByteCall)
    \/ TryReadNextBytePoll
    \/ TryReadNextByteDrain
    \/ TryReadNextByteTimeout

SpecTryRead == Init /\ [][NextTryRead]_vars

(***************************************************************************)
(* ClearMessageBuffer, one loop iteration a step.                          *)
(***************************************************************************)
\* Control enters ClearMessageBuffer: int index = 0.
ClearMessageBufferEntry ==
    /\ op' = "ClearMessageBuffer"
    /\ pc' = "cb_loop"
    /\ index' = 0
    /\ bufAtCall' = MessageBuffer

\* The variables ClearMessageBuffer does not touch.
clearFrame == <<status, length, iterations, completionCode, readState, retval,
                rxStream, rxData, rxReads, rxAcks, drainStatus, start, offset,
                segment, lastIndex, loopCount, txLog, sent, frameCalls, stalled,
                copies, value, b1, b2, b3, b4, data, type, outerLoop, checksum>>

\* The caller invokes ClearMessageBuffer().
ClearMessageBufferCall ==
    /\ AtCaller
    /\ caller = "main"
    /\ ClearMessageBufferEntry
    /\ NoScratch
    /\ UNCHANGED <<MessageBuffer, sinceScratch, caller>>
    /\ UNCHANGED clearFrame

\* One pass of the loop: MessageBuffer[index] = 0.
ClearMessageBufferStep ==
    /\ pc = "cb_loop"
    /\ index < MessageBufferSize
    /\ MessageBuffer' = [MessageBuffer EXCEPT ![index] = 0]
    /\ index' = index + 1
    /\ NoScratch
    /\ sinceScratch' = sinceScratch + 1
    /\ UNCHANGED <<pc, op, bufAtCall, caller>>
    /\ UNCHANGED clearFrame

\* The loop is over: return.
ClearMessageBufferReturn ==
    /\ pc = "cb_loop"
    /\ index >= MessageBufferSize
    /\ pc' = "returned"
    /\ NoScratch
    /\ UNCHANGED <<op, MessageBuffer, index, sinceScratch, bufAtCall, caller>>
    /\ UNCHANGED clearFrame

(***************************************************************************)
(* SendToolPresent                                                         *)
(***************************************************************************)
\* Arguments the caller passes.
ToolPresentArgs == { <<1, 2, 3, 4>>, <<170, 187, 204, 221>> }

\* char toolPresent[] = { 0x8C, 0xFE, 0xF0, 0x3F, 0x00, 0x00, 0x00 } after
\* toolPresent[4..6] = b1, b2, b3: seven elements.
ToolPresentArray(a1, a2, a3) == <<140, 254, 240, 63, a1, a2, a3>>

\* toolPresent[7] = b4 is a store past the end of the array.  What
\* WriteMessage later reads at start[7] is the byte of the stack that follows
\* the array: b4 if the store landed there and nothing overwrote it, any
\* other byte otherwise.
BeyondToolPresent(a4) == {a4} \cup OutsideBytes

\* The caller invokes SendToolPresent(b1, b2, b3, b4): the array is built
\* and WriteMessage(toolPresent, 8, Complete) is entered.  The eighth entry
\* of start.ext is the byte that follows the array in memory.
SendToolPresentCall ==
    /\ AtCaller
    /\ caller = "main"
    /\ \E a \in ToolPresentArgs :
         /\ b1' = a[1] /\ b2' = a[2] /\ b3' = a[3] /\ b4' = a[4]
         /\ \E x \in BeyondToolPresent(a[4]) :
              WriteMessageEntry([kind |-> "ext", off |-> 0,
                                 ext |-> ToolPresentArray(a[1], a[2], a[3]) \o <<x>>],
                                8, Complete)
    /\ caller' = "SendToolPresent@418"
    /\ UNCHANGED <<MessageBuffer, offset, iterations, completionCode, readState,
                   retval, rxStream, rxData, rxReads, rxAcks, drainStatus, copies,
                   value, data, type, outerLoop, checksum>>

\* WriteMessage has returned into SendToolPresent: ClearMessageBuffer().
SendToolPresentClear ==
    /\ pc = "returned"
    /\ caller = "SendToolPresent@418"
    /\ ClearMessageBufferEntry
    /\ caller' = "SendToolPresent@419"
    /\ NoScratch
    /\ UNCHANGED <<MessageBuffer, sinceScratch>>
    /\ UNCHANGED clearFrame

\* ClearMessageBuffer has returned into SendToolPresent, which returns.
SendToolPresentReturn ==
    /\ pc = "returned"
    /\ caller = "SendToolPresent@419"
    /\ op' = "SendToolPresent"
    /\ caller' = "main"
    /\ NoScratch
    /\ UNCHANGED <<pc, MessageBuffer, index, sinceScratch, bufAtCall>>
    /\ UNCHANGED clearFrame

NextTool ==
    \/ (pc = "idle" /\ ClearMessageBufferCall)
    \/ ClearMessageBufferStep
    \/ ClearMessageBufferReturn
    \/ (pc = "idle" /\ SendToolPresentCall)
    \/ WriteMessageSend
    \/ WriteMessageBackoff
    \/ WriteMessageEnd
    \/ WriteMessageFlush
    \/ SendToolPresentClear
    \/ SendToolPresentReturn

SpecTool == Init /\ [][NextTool]_vars

(***************************************************************************)
(* LongSleepWithWatchdog                                                   *)
(***************************************************************************)
\* Control enters LongSleepWithWatchdog: int outerLoop = 0.
LongSleepEntry ==
    /\ op' = "LongSleepWithWatchdog"
    /\ pc' = "ls_loop"
    /\ outerLoop' = 0

\* The variables LongSleepWithWatchdog does not touch.
sleepFrame == <<MessageBuffer, status, length, iterations, completionCode,
                readState, retval, rxStream, rxData, rxReads, rxAcks, drainStatus,
                start, offset, segment, index, lastIndex, loopCount, txLog, sent,
                frameCalls, stalled, bufAtCall, copies, value, b1, b2, b3, b4,
                data, type, checksum>>

\* The caller invokes LongSleepWithWatchdog().
LongSleepWithWatchdogCall ==
    /\ AtCaller
    /\ caller = "main"
    /\ LongSleepEntry
    /\ NoScratch
    /\ UNCHANGED <<sinceScratch, caller>>
    /\ UNCHANGED sleepFrame

\* One pass of the outer loop: ScratchWatchdog, then ten times WasteTime.
LongSleepStep ==
    /\ pc = "ls_loop"
    /\ outerLoop < SleepLimit
    /\ ScratchWatchdog
    /\ outerLoop' = outerLoop + 1
    /\ UNCHANGED <<pc, op, caller>>
    /\ UNCHANGED sleepFrame

\* The outer loop is over: return.
LongSleepReturn ==
    /\ pc = "ls_loop"
    /\ outerLoop >= SleepLimit
    /\ pc' = "returned"
    /\ NoScratch
    /\ UNCHANGED <<op, outerLoop, sinceScratch, caller>>
    /\ UNCHANGED sleepFrame

(***************************************************************************)
(* Reboot                                                                  *)
(***************************************************************************)
\* Values of the 32-bit 'value' the caller passes, as [hi, lo] with
\* value = hi * 65536 + lo: 0x12345678, 0xFFFFFFFF, 0x80000001.
RebootValues ==
    { [hi |-> 4660, lo |-> 22136], [hi |-> 65535, lo |-> 65535],
      [hi |-> 32768, lo |-> 1] }

\* Mutant of RebootBytes: least significant byte first.
RebootBytesLittleEndian(v) ==
    << BitAnd(v.lo, 255), BitAnd(v.lo, 65280) \div 256,
       BitAnd(v.hi, 255), BitAnd(v.hi, 65280) \div 256 >>

\* (value & 0xFF000000) >> 24, (value & 0x00FF0000) >> 16,
\* (value & 0x0000FF00) >> 8, (value & 0x000000FF) >> 0.
RebootBytes(v) ==
    << BitAnd(v.hi, 65280) \div 256, BitAnd(v.hi, 255),
       BitAnd(v.lo, 65280) \div 256, BitAnd(v.lo, 255) >>

\* MessageBuffer[0..7] as Reboot writes it.
RebootMessage(v) == <<108, 240, 16, 96>> \o RebootBytes(v)

\* The variables Reboot's own steps do not touch.
rebootFrame == <<status, length, iterations, completionCode, readState, retval,
                 rxStream, rxData, rxReads, rxAcks, drainStatus, start, offset,
                 segment, index, lastIndex, loopCount, txLog, sent, frameCalls,
                 stalled, copies, b1, b2, b3, b4, data, type, checksum>>

\* The caller invokes Reboot(value): LongSleepWithWatchdog().
RebootCall ==
    /\ AtCaller
    /\ caller = "main"
    /\ \E v \in RebootValues : value' = v
    /\ caller' = "Reboot@389"
    /\ LongSleepEntry
    /\ NoScratch
    /\ UNCHANGED <<MessageBuffer, sinceScratch, bufAtCall>>
    /\ UNCHANGED rebootFrame

\* The first sleep has returned: the message is written into MessageBuffer.
RebootStage ==
    /\ pc = "returned"
    /\ caller = "Reboot@389"
    /\ MessageBuffer' = [i \in DOMAIN MessageBuffer |->
                            IF i < 8 THEN RebootMessage(value)[i + 1]
                            ELSE MessageBuffer[i]]
    /\ op' = "Reboot"
    /\ pc' = "rb_write"
    /\ caller' = "Reboot@399"
    /\ NoScratch
    /\ UNCHANGED <<sinceScratch, bufAtCall, value, outerLoop>>
    /\ UNCHANGED rebootFrame

\* WriteMessage(MessageBuffer, 8, Complete).
RebootWriteMessage ==
    /\ pc = "rb_write"
    /\ WriteMessageEntry([kind |-> "buf", off |-> 0, ext |-> <<>>], 8, Complete)
    /\ UNCHANGED <<MessageBuffer, offset, iterations, completionCode, readState,
                   retval, rxStream, rxData, rxReads, rxAcks, drainStatus, copies>>
    /\ UNCHANGED laterVars

\* WriteMessage has returned into Reboot: LongSleepWithWatchdog().
RebootSleep ==
    /\ pc = "returned"
    /\ caller = "Reboot@399"
    /\ caller' = "Reboot@401"
    /\ LongSleepEntry
    /\ NoScratch
    /\ UNCHANGED <<MessageBuffer, sinceScratch, bufAtCall, value>>
    /\ UNCHANGED rebootFrame

\* The second sleep has returned: for (;;);
RebootHalt ==
    /\ \/ (pc = "returned" /\ caller = "Reboot@401")
       \/ pc = "rb_halt"
    /\ pc' = "rb_halt"
    /\ op' = "Reboot"
    /\ NoScratch
    /\ UNCHANGED <<MessageBuffer, sinceScratch, bufAtCall, value, outerLoop, caller>>
    /\ UNCHANGED rebootFrame

NextReboot ==
    \/ (pc = "idle" /\ RebootCall)
    \/ LongSleepStep
    \/ LongSleepReturn
    \/ RebootStage
    \/ RebootWriteMessage
    \/ WriteMessageSend
    \/ WriteMessageBackoff
    \/ WriteMessageEnd
    \/ WriteMessageFlush
    \/ RebootSleep
    \/ RebootHalt

SpecReboot == Init /\ [][NextReboot]_vars

(***************************************************************************)
(* StartChecksum, AddReadPayloadChecksum                                   *)
(***************************************************************************)
\* Payloads the caller stages: every byte 0xFF, and a mixed pattern.
PayloadBuffers ==
    { [i \in 0..(MessageBufferSize - 1) |-> 255],
      [i \in 0..(MessageBufferSize - 1) |-> (i * 37 + 11) % 256] }

\* Ranges the caller passes to AddReadPayloadChecksum: the start of
\* MessageBuffer, the payload behind a four-byte header, an array of its own.
ChecksumSources ==
    { [kind |-> "buf", off |-> 0, ext |-> <<>>],
      [kind |-> "buf", off |-> 4, ext |-> <<>>],
      [kind |-> "ext", off |-> 0, ext |-> <<255, 255>>] }

ChecksumLengths == { 0, 1, 2, 6, 258, 1020 }

\* The value of the char object that holds byte b (char is signed).
CharValue(b) == IF b >= 128 THEN b - 256 ELSE b

\* Mutant of AsUnsignedChar: 'char value = start[index]', no conversion.
AsPlainChar(c) == c

\* unsigned char value = start[index]: conversion to unsigned char.
AsUnsignedChar(c) == (c + 256) % 256

\* checksum += v, checksum an unsigned short.
ChecksumAdd(c, v) == (c + v) % 65536

\* The loop of StartChecksum from index 'idx' on, checksum so far 'acc'.
RECURSIVE StartChecksumFrom(_, _, _)
StartChecksumFrom(buf, idx, acc) ==
    IF idx >= 10 THEN acc
    ELSE StartChecksumFrom(buf, idx + 1, ChecksumAdd(acc, buf[idx]))

\* The variables the checksum functions do not touch.
checksumFrame == <<MessageBuffer, status, iterations, completionCode, readState,
                   rxStream, rxData, rxReads, rxAcks, drainStatus, offset,
                   segment, lastIndex, loopCount, txLog, sent, frameCalls, stalled,
                   bufAtCall, copies, caller, value, b1, b2, b3, b4, data, type,
                   outerLoop>>

\* The caller writes a payload into MessageBuffer.
StagePayload ==
    /\ AtCaller
    /\ caller = "main"
    /\ \E buf \in PayloadBuffers : MessageBuffer' = buf
    /\ MessageBuffer' # MessageBuffer
    /\ bufAtCall' = MessageBuffer'
    /\ pc' = "idle"
    /\ op' = "caller"
    /\ NoScratch
    /\ UNCHANGED <<status, iterations, completionCode, readState, rxStream, rxData,
                   rxReads, rxAcks, drainStatus, offset, segment, lastIndex,
                   loopCount, txLog, sent, frameCalls, stalled, copies, caller,
                   value, b1, b2, b3, b4, data, type, outerLoop, sinceScratch,
                   start, length, index, checksum, retval>>

\* The caller invokes StartChecksum(): the sum of MessageBuffer[4..9].
StartChecksumCall ==
    /\ AtCaller
    /\ caller = "main"
    /\ checksum' = StartChecksumFrom(MessageBuffer, 4, 0)
    /\ retval' = checksum'
    /\ op' = "StartChecksum"
    /\ pc' = "returned"
    /\ NoScratch
    /\ UNCHANGED <<start, length, index, sinceScratch>>
    /\ UNCHANGED checksumFrame

\* The caller invokes AddReadPayloadChecksum(start, length) with a range
\* that holds 'length' bytes.
AddReadPayloadChecksumCall ==
    /\ AtCaller
    /\ caller = "main"
    /\ \E st \in ChecksumSources, len \in ChecksumLengths :
         /\ IF st.kind = "ext"
            THEN len <= Len(st.ext)
            ELSE st.off + len <= MessageBufferSize
         /\ start' = st
         /\ length' = len
    /\ ScratchWatchdog
    /\ checksum' = 0
    /\ index' = 0
    /\ op' = "AddReadPayloadChecksum"
    /\ pc' = "ck_loop"
    /\ UNCHANGED retval
    /\ UNCHANGED checksumFrame

\* One pass of the loop.
AddReadPayloadChecksumStep ==
    /\ pc = "ck_loop"
    /\ index < length
    /\ checksum' = ChecksumAdd(checksum,
                       AsUnsignedChar(CharValue(LoadByte(MessageBuffer, start, index))))
    /\ IF index % 100 = 0
       THEN ScratchWatchdog
       ELSE NoScratch /\ UNCHANGED sinceScratch
    /\ index' = index + 1
    /\ UNCHANGED <<pc, op, start, length, retval>>
    /\ UNCHANGED checksumFrame

\* The loop is over: ScratchWatchdog, return checksum.
AddReadPayloadChecksumReturn ==
    /\ pc = "ck_loop"
    /\ index >= length
    /\ ScratchWatchdog
    /\ retval' = checksum
    /\ pc' = "returned"
    /\ UNCHANGED <<op, start, length, index, checksum>>
    /\ UNCHANGED checksumFrame

NextChecksum ==
    \/ (op = "none" /\ StagePayload)
    \/ (pc = "idle" /\ StartChecksumCall)
    \/ (pc = "idle" /\ AddReadPayloadChecksumCall)
    \/ AddReadPayloadChecksumStep
    \/ AddReadPayloadChecksumReturn

SpecChecksum == Init /\ [][NextChecksum]_vars

(***************************************************************************)
(* The functions of the core together: the caller runs one of ReadMessage, *)
(* TryReadNextByte, LongSleepWithWatchdog, ClearMessageBuffer,             *)
(* CopyToMessageBuffer, AddReadPayloadChecksum, or stages and sends frames *)
(* with WriteMessage.                                                      *)
(***************************************************************************)
\* No function has been called yet.
Fresh == pc = "idle" /\ op = "none"

\* The caller is staging and sending frames.
Sending == op \in {"none", "caller", "WriteMessage"}

NextCore ==
    \/ (Fresh /\ ReadMessageCall)
    \/ ReadMessagePoll
    \/ ReadMessageDrain
    \/ ReadMessageTimeout
    \/ (Fresh /\ TryReadNextByteCall)
    \/ TryReadNextBytePoll
    \/ TryReadNextByteDrain
    \/ TryReadNextByteTimeout
    \/ (Sending /\ StageMessage)
    \/ (Sending /\ WriteMessageCall)
    \/ WriteMessageSend
    \/ WriteMessageBackoff
    \/ WriteMessageEnd
    \/ WriteMessageFlush
    \/ WriteMessageReturn
    \/ (Fresh /\ LongSleepWithWatchdogCall)
    \/ LongSleepStep
    \/ LongSleepReturn
    \/ (Fresh /\ ClearMessageBufferCall)
    \/ ClearMessageBufferStep
    \/ ClearMessageBufferReturn
    \/ (Fresh /\ CopyToMessageBuffer)
    \/ (Fresh /\ AddReadPayloadChecksumCall)
    \/ AddReadPayloadChecksumStep
    \/ AddReadPayloadChecksumReturn

SpecCore == Init /\ [][NextCore]_vars

\* The processor keeps executing: a step that is possible is taken.
SpecCoreFair == SpecCore /\ WF_vars(NextCore)

(***************************************************************************)
(* Properties of ReadMessage.                                              *)
(***************************************************************************)

\* C1: a poll that reads a completion code (receive status 5, 6 or 7) while
\* no data byte is buffered never ends the call: the code is read and
\* acknowledged, the loop goes on to its next iteration, and a call that
\* returns with nothing buffered returned through the overflow path or the
\* timeout, never through a completion code.
C1_BareCompletionKeepsPolling ==
    /\ [][ ( /\ pc = "rm_loop"
             /\ iterations < ReadPollLimit
             /\ length = 0
             /\ status' \in {5, 6, 7} )
          => ( /\ pc' = "rm_loop"
               /\ iterations' = iterations + 1
               /\ length' = 0
               /\ rxReads' = 1
               /\ UNCHANGED <<readState, retval, MessageBuffer>> ) ]_vars
    /\ [](ReadReturned /\ length = 0
            => readState \in {ReadStateTimeout, ReadStateOverflow})

\* C1 witness: completion code 0x30 was read with nothing buffered and the
\* loop is still polling.
C1_Witness ==
    /\ pc = "rm_loop"
    /\ length = 0
    /\ status = 7
    /\ rxAcks = 1
    /\ completionCode = 48
    /\ iterations >= 1

\* C2: once a completion code c has been read after n data bytes (1 <= n < 25),
\* the call has returned: n with readState 1 and the n bytes in arrival order
\* at MessageBuffer[0..n-1] when bits 0x30 of c are not both set, 0 with
\* readState 2 when they are.
C2_CompletionAfterData ==
    (op = "ReadMessage" /\ rxAcks = 1 /\ Len(rxData) >= 1)
    => ( /\ pc = "returned"
         /\ Len(rxData) < DebugLengthLimit
         /\ IF (completionCode \div 16) % 4 = 3
            THEN readState = 2 /\ retval = 0
            ELSE /\ readState = 1
                 /\ retval = Len(rxData)
                 /\ BufferHoldsReceived )

\* C2 witness: three data bytes, idle polls in between, then completion
\* code 0x00: returned 3 with Success.
C2_Witness ==
    /\ ReadReturned
    /\ readState = 1
    /\ retval = 3
    /\ completionCode = 0
    /\ iterations > 3
    /\ rxData = <<48, 49, 50>>
    /\ MessageBuffer[0] = 48 /\ MessageBuffer[1] = 49 /\ MessageBuffer[2] = 50

\* C3: ReadMessage does not return Overflow while the controller still
\* reports overflow without having read the receive port: when it returns
\* with readState 0x0B, either the status last read by the drain loop was no
\* longer the overflow status, or the drain loop read the receive port.
C3_OverflowDrained ==
    (ReadReturned /\ readState = ReadStateOverflow)
    => (drainStatus # 3 \/ rxReads >= 1)

\* C4: when the poll loop has run all its iterations, the call returns with
\* readState 0x0A and the number of data bytes buffered, and those bytes are
\* still in MessageBuffer in arrival order.
C4_TimeoutKeepsPartial ==
    /\ (pc = "rm_loop" => iterations <= ReadPollLimit)
    /\ (ReadReturned /\ iterations = ReadPollLimit)
       => ( /\ readState = ReadStateTimeout
            /\ retval = Len(rxData)
            /\ retval = length
            /\ BufferHoldsReceived )

\* C4 witness: a timeout with two data bytes buffered.
C4_Witness ==
    /\ ReadReturned
    /\ readState = ReadStateTimeout
    /\ iterations = ReadPollLimit
    /\ retval = 2
    /\ rxData = <<255, 254>>
    /\ MessageBuffer[0] = 255 /\ MessageBuffer[1] = 254

(***************************************************************************)
(* Properties of WriteMessage.                                             *)
(***************************************************************************)
\* WriteMessage has returned to the caller.
WriteReturned == pc = "returned" /\ op = "WriteMessage"

\* The range the returned call was given, as it was when the call was made.
RangeAtCall == RangeOf(bufAtCall, start, length)

IsDataWrite(w) == w[1] = "data"

\* The values written to the transmit data port, in order.
DataWrites(log) ==
    LET d == SelectSeq(log, IsDataWrite) IN [i \in 1..Len(d) |-> d[i][2]]

AllZero(buf) == \A i \in 0..(MessageBufferSize - 1) : buf[i] = 0

\* C5: a Complete call on a range of n >= 1 bytes writes one frame-start
\* command 0x14, before any data; bytes[0..n-2] in index order on the data
\* port; the frame-end command 0x0C immediately followed by bytes[n-1]; a
\* 0x00 as the last data write; and leaves the whole MessageBuffer zero.
C5_CompleteFrameOrder ==
    (WriteReturned /\ segment = Complete /\ length >= 1)
    => LET n == length
           R == RangeAtCall
       IN /\ Len(txLog) >= n + 3
          /\ txLog[1] = <<"cmd", 20>>
          /\ Cardinality({i \in 1..Len(txLog) : txLog[i] = <<"cmd", 20>>}) = 1
          /\ \A i \in 1..(n - 1) : txLog[i + 1] = <<"data", R[i]>>
          /\ txLog[n + 1] = <<"cmd", 12>>
          /\ txLog[n + 2] = <<"data", R[n]>>
          /\ txLog[Len(txLog)] = <<"data", 0>>
          /\ DataWrites(txLog) = R \o <<0>>
          /\ AllZero(MessageBuffer)

\* C5 witness: a Complete call on the two bytes 0xF0 0x10 has returned.
C5_Witness ==
    /\ WriteReturned
    /\ segment = Complete
    /\ length = 2
    /\ RangeAtCall = <<240, 16>>
    /\ DataWrites(txLog) = <<240, 16, 0>>

\* What a returned WriteMessage call leaves the caller: MessageBuffer, the
\* value returned (none: retval is as before), the watchdog registers.
WriteOutcome == <<MessageBuffer, retval, Watchdog1, Watchdog2>>

\* What a call whose back-offs all ended with the buffer drained leaves.
DrainedOutcome ==
    <<IF HasEnd(segment) THEN [i \in DOMAIN bufAtCall |-> 0] ELSE bufAtCall,
      0, 170, 128>>

\* Every returned call leaves the same outcome, stalled or not.
WriteOutcomeIgnoresStall == WriteReturned => WriteOutcome = DrainedOutcome

\* C6: a WriteMessage call in which a back-off ran its full budget with the
\* transmit buffer still almost full or full leaves the caller a state that
\* differs from the one a call whose back-offs drained leaves: MessageBuffer
\* (all zero after End, as at the call otherwise), the value returned, the
\* watchdog registers.
C6_StallIsObservable ==
    (WriteReturned /\ stalled) => WriteOutcome # DrainedOutcome

\* C7 as stated: whenever a call with End returns, the transmit-fullness
\* value it read last was 0.
C7_FlushedOnReturn ==
    (WriteReturned /\ HasEnd(segment)) => status = 0

\* C7 amended: whenever a call with End returns, the transmit-fullness value
\* it read last was 0, or the flush loop has run its full budget of
\* iterations.
C7_FlushedOrBudgetSpent ==
    (WriteReturned /\ HasEnd(segment)) => (status = 0 \/ loopCount = FlushLimit)

\* C7 witness: a call with End waited in the flush loop, read 0, returned.
C7_Witness ==
    /\ WriteReturned
    /\ HasEnd(segment)
    /\ status = 0
    /\ loopCount >= 1

\* The port writes of WriteMessage(R, Complete) for a non-empty R.
CompleteFrame(R) ==
    << <<"cmd", 20>> >>
      \o [i \in 1..(Len(R) - 1) |-> <<"data", R[i]>>]
      \o << <<"cmd", 12>>, <<"data", R[Len(R)]>>, <<"cmd", 3>>, <<"data", 0>> >>

\* C8: when the call that ends a frame (End with a non-empty range) returns,
\* the port writes since the frame's Start are those of one Complete call on
\* the concatenation of the ranges of the frame's calls, whether the frame
\* was sent by one Complete call or streamed as Start, Middle, ..., End.
C8_StreamingEquivalence ==
    (WriteReturned /\ HasEnd(segment) /\ length >= 1 /\ frameCalls >= 1)
    => txLog = CompleteFrame(sent)

\* C8 witness: a frame streamed as Start, Middle, End, one distinct byte each.
C8_Witness ==
    /\ WriteReturned
    /\ segment = End
    /\ frameCalls = 3
    /\ sent = <<108, 240, 16>>
    /\ txLog = CompleteFrame(<<108, 240, 16>>)

\* C9: after a call with End every byte of MessageBuffer is 0; after a call
\* without End MessageBuffer is as it was when the call was made.
C9_BufferLifecycle ==
    WriteReturned
    => IF HasEnd(segment)
       THEN AllZero(MessageBuffer)
       ELSE MessageBuffer = bufAtCall

\* C9 witness: a call with End returned and the last byte of the buffer,
\* non-zero at the call, is zero.
C9_Witness ==
    /\ WriteReturned
    /\ segment = End
    /\ bufAtCall[MessageBufferSize - 1] = 165
    /\ MessageBuffer[MessageBufferSize - 1] = 0

(***************************************************************************)
(* Properties of CopyToMessageBuffer.                                      *)
(***************************************************************************)
\* C10: after CopyToMessageBuffer(MessageBuffer, length, offset) with
\* 0 < offset < length and offset + length <= 1024, the bytes at
\* [offset, offset + length) are the bytes that were at [0, length).
C10_OverlappingCopy ==
    ( /\ pc = "returned"
      /\ op = "CopyToMessageBuffer"
      /\ start.kind = "buf" /\ start.off = 0
      /\ 0 < offset /\ offset < length
      /\ offset + length <= 1024 )
    => \A i \in 0..(length - 1) : MessageBuffer[offset + i] = bufAtCall[i]

\* C10 witness: three distinct bytes moved one place up.
C10_Witness ==
    /\ pc = "returned"
    /\ op = "CopyToMessageBuffer"
    /\ start.kind = "buf" /\ start.off = 0
    /\ offset = 1 /\ length = 3
    /\ <<bufAtCall[0], bufAtCall[1], bufAtCall[2]>> = <<108, 240, 16>>
    /\ <<MessageBuffer[1], MessageBuffer[2], MessageBuffer[3]>> = <<108, 240, 16>>

(***************************************************************************)
(* Properties of ClearMessageBuffer and SendToolPresent.                   *)
(***************************************************************************)
\* C11: the watchdog is serviced during the fill of ClearMessageBuffer: the
\* number of buffer bytes zeroed since the last call of ScratchWatchdog never
\* exceeds about 100 (here: 200, twice the spec's figure).
C11_ClearServicesWatchdog == sinceScratch <= 200

\* The WriteMessage call of SendToolPresent has returned, or SendToolPresent
\* itself has.
ToolPresentSent ==
    \/ (pc = "returned" /\ op = "WriteMessage" /\ caller = "SendToolPresent@418")
    \/ (pc = "returned" /\ op = "SendToolPresent")

\* C13: when SendToolPresent(b1, b2, b3, b4) has sent its frame, the port writes
\* were those of one Complete frame on the eight bytes 0x8C 0xFE 0xF0 0x3F b1
\* b2 b3 b4: the data port received the four fixed bytes, then b1, b2, b3,
\* b4 in that order, then the 0x00 placeholder.
C13_ToolPresentFrame ==
    ToolPresentSent
    => /\ txLog = CompleteFrame(<<140, 254, 240, 63, b1, b2, b3, b4>>)
       /\ DataWrites(txLog) = <<140, 254, 240, 63, b1, b2, b3, b4, 0>>

(***************************************************************************)
(* Properties of Reboot.                                                   *)
(***************************************************************************)
\* Control is inside Reboot or a function it called.
InReboot == caller \in {"Reboot@389", "Reboot@399", "Reboot@401"}

\* The notification of Reboot(value): the header and value's four bytes,
\* most significant first.
RebootFrame ==
    <<108, 240, 16, 96, value.hi \div 256, value.hi % 256,
      value.lo \div 256, value.lo % 256>>

\* C12: Reboot(value) writes the 8 bytes 0x6C 0xF0 0x10 0x60 value[31:24]
\* value[23:16] value[15:8] value[7:0] into MessageBuffer[0..7] (and nothing
\* else) and sends them with WriteMessage(MessageBuffer, 8, Complete); control
\* never leaves Reboot; once the second delay is over it stays in the final
\* loop, where ScratchWatchdog is never called again.
C12_RebootSendsAndHalts ==
    /\ []( (InReboot /\ op = "WriteMessage")
            => /\ start = [kind |-> "buf", off |-> 0, ext |-> <<>>]
               /\ length = 8
               /\ segment = Complete
               /\ \A i \in 0..(MessageBufferSize - 1) :
                     bufAtCall[i] = IF i < 8 THEN RebootFrame[i + 1] ELSE 165 )
    /\ []( pc = "rb_halt" => txLog = CompleteFrame(RebootFrame) )
    /\ [][ InReboot => InReboot' ]_vars
    /\ [][ pc = "rb_halt"
            => (pc' = "rb_halt" /\ ~scratched'
                /\ UNCHANGED <<Watchdog1, Watchdog2>>) ]_vars

\* C12 witness: Reboot(0x12345678) has sent its notification and sits in the
\* final loop.
C12_Witness ==
    /\ pc = "rb_halt"
    /\ value = [hi |-> 4660, lo |-> 22136]
    /\ outerLoop = SleepLimit
    /\ DataWrites(txLog) = <<108, 240, 16, 96, 18, 52, 86, 120, 0>>

(***************************************************************************)
(* Properties of the checksum functions.                                   *)
(***************************************************************************)
\* The sum of the bytes f[lo..hi], as an integer.
RECURSIVE SumRange(_, _, _)
SumRange(f, lo, hi) ==
    IF lo > hi THEN 0
    ELSE IF lo = hi THEN f[lo]
    ELSE LET mid == (lo + hi) \div 2
         IN SumRange(f, lo, mid) + SumRange(f, mid + 1, hi)

\* The sum of the bytes of the range the returned call was given.
RangeSum ==
    IF start.kind = "buf"
    THEN SumRange(MessageBuffer, start.off, start.off + length - 1)
    ELSE SumRange(start.ext, start.off + 1, start.off + length)

ChecksumReturned == pc = "returned" /\ op = "AddReadPayloadChecksum"

\* C14: AddReadPayloadChecksum returns the sum of the bytes of its range,
\* each taken as 0..255, modulo 65536 (0 for the empty range, 0x01FE for
\* 0xFF 0xFF, the sum less a multiple of 65536 and never 65535 by saturation
\* when the sum exceeds 65535); StartChecksum returns that sum over
\* MessageBuffer[4..9].
C14_ChecksumIsSumMod65536 ==
    /\ ChecksumReturned
       => /\ retval = RangeSum % 65536
          /\ retval \in 0..65535
          /\ length = 0 => retval = 0
          /\ (start.kind = "ext" /\ length = 2) => retval = 510
          /\ (start.kind = "buf" /\ length = 258 /\ MessageBuffer[1] = 255)
             => retval = 258 * 255 - 65536
    /\ (pc = "returned" /\ op = "StartChecksum")
       => retval = SumRange(MessageBuffer, 4, 9) % 65536

\* C14 witness: 258 bytes 0xFF, whose sum 65790 is above 65535: 254 returned.
C14_Witness ==
    /\ ChecksumReturned
    /\ length = 258
    /\ start = [kind |-> "buf", off |-> 0, ext |-> <<>>]
    /\ MessageBuffer[0] = 255
    /\ RangeSum = 65790
    /\ retval = 254

(***************************************************************************)
(* Properties of TryReadNextByte.                                          *)
(***************************************************************************)
TryReturned == pc = "returned" /\ op = "TryReadNextByte"

\* C19: TryReadNextByte polls at most TryPollLimit times, all polls before
\* the last having read status 0, and returns by the status of the last:
\* 1, 2, 4: type MessageData, *data the byte read from the receive port,
\* return 1; 5, 6, 7: type CompletionCode, *completionCode the code read, one
\* acknowledge command, return 1; 3: type Overflow, data and completionCode
\* 0, return 0; idle throughout: type Silence, data and completionCode 0,
\* return 0.  MessageBuffer is as it was at the call.
C19_TryReadClassifies ==
    /\ (op = "TryReadNextByte" /\ pc = "tr_loop" /\ iterations > 0) => status = 0
    /\ op = "TryReadNextByte" => (iterations <= TryPollLimit /\ MessageBuffer = bufAtCall)
    /\ TryReturned
       => CASE status \in {1, 2, 4} ->
                 /\ type = 1 /\ retval = 1
                 /\ iterations < TryPollLimit
                 /\ rxReads = 1 /\ rxAcks = 0
                 /\ rxData = <<data>>
                 /\ completionCode = StaleByte
            [] status \in {5, 6, 7} ->
                 /\ type = 2 /\ retval = 1
                 /\ iterations < TryPollLimit
                 /\ rxReads = 1 /\ rxAcks = 1
                 /\ completionCode \in CompletionCodes
                 /\ data = StaleByte
            [] status = 3 ->
                 /\ type = 3 /\ retval = 0
                 /\ iterations < TryPollLimit
                 /\ data = 0 /\ completionCode = 0
                 /\ rxAcks = 0
            [] status = 0 ->
                 /\ type = 0 /\ retval = 0
                 /\ iterations = TryPollLimit
                 /\ data = 0 /\ completionCode = 0
                 /\ rxReads = 0 /\ rxAcks = 0

\* C19 witness: two idle polls, then a completion code 0x30 is read and
\* acknowledged.
C19_Witness ==
    /\ TryReturned
    /\ iterations = 2
    /\ status = 6
    /\ type = CompletionCode
    /\ completionCode = 48
    /\ rxAcks = 1
    /\ retval = 1

(***************************************************************************)
(* Further properties of ReadMessage.                                      *)
(***************************************************************************)
\* During ReadMessage: 0 <= length <= 25, the buffered bytes are at the
\* indices below length, and no index from 25 on has been written.
ReadStaysBelowCap ==
    op = "ReadMessage"
    => /\ length \in 0..25
       /\ length = Len(rxData)
       /\ BufferHoldsReceived
       /\ \A i \in 25..(MessageBufferSize - 1) : MessageBuffer[i] = bufAtCall[i]

\* C17 as stated: length stays within 0..25, every write is below index 25,
\* and a call that buffered 25 data bytes returns 25 with readState 0xEE.
C17_CapReturnsDebugLimit ==
    /\ ReadStaysBelowCap
    /\ (ReadReturned /\ Len(rxData) = 25) => (retval = 25 /\ readState = 238)

\* C17 amended: length stays within 0..25, every write is below index 25,
\* and a call that buffered 25 data bytes returns 25 with readState 0xEE, or,
\* when the 25th byte was read in the last iteration of the poll budget, 25
\* with readState 0x0A; never with Success, suppressed or Overflow.
C17_CapReturnsDebugLimitOrTimeout ==
    /\ ReadStaysBelowCap
    /\ (ReadReturned /\ Len(rxData) = 25)
       => /\ retval = 25
          /\ \/ readState = 238
             \/ (readState = 10 /\ iterations = ReadPollLimit)

\* C17 witness: 25 data bytes were buffered and the call returned 25 with
\* readState 0xEE.
C17_Witness ==
    /\ ReadReturned
    /\ readState = 238
    /\ retval = 25
    /\ Len(rxData) = 25
    /\ MessageBuffer[24] = rxData[25]
    /\ MessageBuffer[25] = 165

\* C18: a poll step of ReadMessage acts by the receive-status field it read:
\* 0: no port read, MessageBuffer and length unchanged; 1, 2, 4: one
\* receive-port read, stored at MessageBuffer[length], length one more;
\* 5, 6, 7: one receive-port read into completionCode and one acknowledge
\* command, MessageBuffer and length unchanged; 3: MessageBuffer unchanged
\* and the call ends with Overflow.
C18_PollStepByStatus ==
    /\ [][ (pc = "rm_loop" /\ iterations < ReadPollLimit /\ length # 25)
            => CASE status' = 0 ->
                      /\ rxReads' = 0 /\ rxAcks' = 0
                      /\ UNCHANGED <<MessageBuffer, length, rxData, completionCode>>
                      /\ pc' = "rm_loop"
                 [] status' \in {1, 2, 4} ->
                      /\ rxReads' = 1 /\ rxAcks' = 0
                      /\ Len(rxData') = Len(rxData) + 1
                      /\ length' = length + 1
                      /\ MessageBuffer' =
                           [MessageBuffer EXCEPT ![length] = rxData'[Len(rxData')]]
                      /\ UNCHANGED completionCode
                      /\ pc' = "rm_loop"
                 [] status' \in {5, 6, 7} ->
                      /\ rxReads' = 1 /\ rxAcks' = 1
                      /\ completionCode' \in CompletionCodes
                      /\ UNCHANGED <<MessageBuffer, length, rxData>>
                 [] status' = 3 ->
                      /\ rxAcks' = 0
                      /\ UNCHANGED <<MessageBuffer, length, rxData, completionCode>>
                      /\ pc' = "rm_drain" ]_vars
    /\ [][ pc = "rm_drain"
            => /\ pc' = "returned"
               /\ readState' = 11
               /\ retval' = 0
               /\ UNCHANGED <<MessageBuffer, length>> ]_vars

\* C18 witness: the second data byte has just been stored, on status 4.
C18_Witness ==
    /\ pc = "rm_loop"
    /\ op = "ReadMessage"
    /\ status = 4
    /\ rxReads = 1
    /\ length = 2
    /\ MessageBuffer[1] = 254

\* C20: readState is assigned only by the step that returns, once, one of
\* 1, 2, 0x0A, 0x0B, 0xEE; 1 only with a return value in 1..24 and in the
\* poll step that read a completion code whose bits 0x30 are not both set;
\* 2 and 0x0B with return value 0; completionCode changes only in a poll
\* step that saw status 5, 6 or 7.
C20_OutcomeConsistency ==
    /\ []( (op = "ReadMessage" /\ pc # "returned") => readState = 0 )
    /\ []( ReadReturned
            => /\ readState \in {1, 2, 10, 11, 238}
               /\ readState = 1
                  => /\ retval \in 1..24
                     /\ status \in {5, 6, 7}
                     /\ rxAcks = 1
                     /\ (completionCode \div 16) % 4 # 3
               /\ readState \in {2, 11} => retval = 0 )
    /\ [][ readState' # readState => (pc # "returned" /\ pc' = "returned") ]_vars
    /\ [][ completionCode' # completionCode
            => (pc = "rm_loop" /\ status' \in {5, 6, 7} /\ rxAcks' = 1) ]_vars

\* C20 witness: an Overflow return after two data bytes: 0 returned, the
\* completion code never written.
C20_Witness ==
    /\ ReadReturned
    /\ readState = 11
    /\ retval = 0
    /\ length = 2
    /\ completionCode = 0
    /\ status = 3

(***************************************************************************)
(* Properties of the loops of the core.                                    *)
(***************************************************************************)
\* A step that is an iteration of a poll, send, wait or delay loop and
\* leaves control in the function: a poll of ReadMessage or TryReadNextByte
\* that does not return, a byte of the send loop, a pass of the back-off or
\* of the flush loop of WriteMessage, an outer pass of LongSleepWithWatchdog.
LoopIteration ==
    \/ (pc = "rm_loop" /\ pc' = "rm_loop" /\ iterations' = iterations + 1)
    \/ (pc = "tr_loop" /\ pc' = "tr_loop" /\ iterations' = iterations + 1)
    \/ (pc = "wm_send" /\ pc' = "wm_backoff")
    \/ (pc = "wm_backoff" /\ pc' = "wm_backoff" /\ loopCount' = loopCount + 1)
    \/ (pc = "wm_flush" /\ pc' = "wm_flush" /\ loopCount' = loopCount + 1)
    \/ (pc = "ls_loop" /\ pc' = "ls_loop" /\ outerLoop' = outerLoop + 1)

\* C15: every such iteration calls ScratchWatchdog, whatever the controller
\* status reads as.
C15_LoopsScratchWatchdog ==
    [][ LoopIteration => (scratched' /\ Watchdog1' = 170 /\ Watchdog2' >= 128) ]_vars

\* C15 witness: a pass of the back-off loop has run with the transmit buffer
\* full, and the watchdog was scratched in it.
C15_Witness ==
    /\ pc = "wm_backoff"
    /\ loopCount = 1
    /\ status = 3
    /\ scratched

\* The counters of the loops never pass their budgets, and the overflow
\* drain loops never iterate.
LoopCountersBounded ==
    /\ op = "ReadMessage" => iterations <= ReadPollLimit
    /\ op = "TryReadNextByte" => iterations <= TryPollLimit
    /\ pc = "wm_backoff" => loopCount <= BackoffLimit
    /\ pc = "wm_flush" => loopCount <= FlushLimit
    /\ pc \in {"wm_send", "wm_backoff"} => index <= lastIndex \/ lastIndex < 0
    /\ pc = "ls_loop" => outerLoop <= SleepLimit
    /\ pc = "cb_loop" => index <= MessageBufferSize
    /\ pc = "ck_loop" => index <= length
    /\ pc \in {"rm_drain", "tr_drain"} => rxReads = 0

\* C16: every call of WriteMessage, ReadMessage, TryReadNextByte,
\* ClearMessageBuffer, CopyToMessageBuffer, AddReadPayloadChecksum and
\* LongSleepWithWatchdog returns, whatever the controller status reads as:
\* control is never inside a call for ever, it is back at the caller again
\* and again; and the loops stay within their budgets.
C16_EveryCallReturns ==
    /\ []LoopCountersBounded
    /\ []<>AtCaller

\* C16 witness: WriteMessage has returned from a call in which the transmit
\* buffer read full in every poll of the back-off and of the flush loop.
C16_Witness ==
    /\ WriteReturned
    /\ HasEnd(segment)
    /\ stalled
    /\ status = 3
    /\ loopCount = FlushLimit

====
